---------------------------- MODULE Spec2Model ----------------------------
(* Model of the task-management backend: the issue routes of jira_api.js, *)
(* the role registry (accessConfig section of jira_api.js) and the task   *)
(* and user routes of server.js.  A request is received (req), then its   *)
(* handler runs as one step against the row store and leaves a response   *)
(* (resp, sent); writes logs the update calls the handler made and reads   *)
(* the queries of the single-issue view.  inflight holds the issue        *)
(* updates that run concurrently, each between its read of the issue and  *)
(* its write.                                                             *)
EXTENDS Naturals, FiniteSets, Sequences, TLC

VARIABLES roles, schema, user_roles, is_active, projects, issues, nextIssue,
          tasks, nextTask, req, resp, sent, writes, call, inflight, reads

vars == <<roles, schema, user_roles, is_active, projects, issues, nextIssue,
          tasks, nextTask, req, resp, sent, writes, call, inflight, reads>>

-----------------------------------------------------------------------------
(* Bounds of the model.                                                    *)

\* Issues created in a run of the issue routes; in a run of the hierarchy.
MaxIssues == 1
MaxLinked == 2
\* Tasks created in a run of the task routes.
MaxTasks == 1
\* Keys present in one request body.
MaxKeys == 2
\* Projects created in a run of the project routes.
MaxProjects == 2

-----------------------------------------------------------------------------
(* Values.                                                                 *)

Users == {"u1", "u2"}

\* JSON null, and the JavaScript undefined of a key the payload lacks.
Null == "null"
Undef == "undefined"

\* KnownRoles with one more string let through.
KnownRoles_WithGuest ==
    {"user", "team_member", "team_leader", "client", "admin", "superadmin", "guest"}

\* allowedRoles of the role-change route, and one string outside it.
KnownRoles == {"user", "team_member", "team_leader", "client", "admin", "superadmin"}
RoleValues == KnownRoles \cup {"guest"}
NoRow == "no_row"

IssueIdSeq == <<"i1", "i2", "i3", "i4">>
TaskIdSeq == <<"t1", "t2", "t3", "t4">>
ProjectIdSeq == <<"p1", "p2", "p3">>
IssueIds == {IssueIdSeq[n] : n \in 1..MaxLinked}
TaskIds == {TaskIdSeq[n] : n \in 1..MaxTasks}

\* JSON true and false, and the strings 'true' and 'false'.
JTrue == "true"
JFalse == "false"
StrTrue == "'true'"
StrFalse == "'false'"

\* JavaScript truthiness of the values the model uses.
Truthy(v) == v \notin {Null, Undef, "", JFalse}

\* a || b
Or(a, b) == IF Truthy(a) THEN a ELSE b

\* req.body[k]
Get(body, k) == IF k \in DOMAIN body THEN body[k] ELSE Undef

EmptyBody == [k \in {} |-> Null]

\* No function is being applied.
NoCall == [fn |-> "none"]

\* A JavaScript boolean a function returns.
Bool(b) == IF b THEN JTrue ELSE JFalse

-----------------------------------------------------------------------------
(* Role registry.                                                          *)

GlobalCaps == {"canManageUsers", "canViewAllUsers", "canCreateProjects", "canViewAllProjects"}
ProjectCaps == {"autoMemberOnCreate", "canManageMembers", "canCreateIssues", "canAssignIssuesToOthers"}

NoCaps == [global |-> {}, project |-> {}]
AllCaps == [global |-> GlobalCaps, project |-> ProjectCaps]

\* Names every JavaScript object inherits: roles[name] is truthy for them
\* though the configuration does not list them.
ProtoNames == {"constructor", "toString"}

getRoleConfig(globalRole) ==
    IF globalRole \in DOMAIN roles THEN roles[globalRole]
    ELSE IF globalRole \in ProtoNames THEN NoCaps
    ELSE IF "user" \in DOMAIN roles THEN roles["user"]
    ELSE NoCaps

canManageUsers(globalRole) == "canManageUsers" \in getRoleConfig(globalRole).global
canViewAllUsers(globalRole) == "canViewAllUsers" \in getRoleConfig(globalRole).global
canUserCreateProject(globalRole) == "canCreateProjects" \in getRoleConfig(globalRole).global
canViewAllProjects(globalRole) == "canViewAllProjects" \in getRoleConfig(globalRole).global
shouldAutoAddAsProjectMemberOnCreate(globalRole) ==
    "autoMemberOnCreate" \in getRoleConfig(globalRole).project
canManageProjectMembers(globalRole) == "canManageMembers" \in getRoleConfig(globalRole).project
canCreateIssues(globalRole) == "canCreateIssues" \in getRoleConfig(globalRole).project
canAssignIssuesToOthers(globalRole) == "canAssignIssuesToOthers" \in getRoleConfig(globalRole).project

\* Role lookup: the row's role, or user when there is no row or the lookup fails.
getUserRole(userId, lookupError) ==
    IF lookupError \/ user_roles[userId] = NoRow THEN "user" ELSE user_roles[userId]


\* The exported predicate that reads the capability.
Capability(cap, globalRole) ==
    CASE cap = "canManageUsers" -> canManageUsers(globalRole)
      [] cap = "canViewAllUsers" -> canViewAllUsers(globalRole)
      [] cap = "canCreateProjects" -> canUserCreateProject(globalRole)
      [] cap = "canViewAllProjects" -> canViewAllProjects(globalRole)
      [] cap = "autoMemberOnCreate" -> shouldAutoAddAsProjectMemberOnCreate(globalRole)
      [] cap = "canManageMembers" -> canManageProjectMembers(globalRole)
      [] cap = "canCreateIssues" -> canCreateIssues(globalRole)
      [] cap = "canAssignIssuesToOthers" -> canAssignIssuesToOthers(globalRole)

\* The role strings a user_roles row may hold.
RoleNames == RoleValues \cup ProtoNames

RoleCalls ==
    [fn : {"capability"}, cap : GlobalCaps \cup ProjectCaps, globalRole : RoleNames]
    \cup [fn : {"getUserRole"}, userId : Users, lookupError : BOOLEAN]

\* The call has returned: its value is call.ret.
Returned == "ret" \in DOMAIN call

Return(value) == call' = call @@ [ret |-> value]

\* A capability predicate is applied to a role string.
ApplyCapability ==
    /\ call.fn = "capability"
    /\ ~Returned
    /\ Return(Bool(Capability(call.cap, call.globalRole)))
    /\ UNCHANGED <<reads, inflight, roles, schema, user_roles, is_active, projects, sent, writes, issues, nextIssue, tasks, nextTask, req, resp>>

\* The role of an identity is looked up.
ApplyGetUserRole ==
    /\ call.fn = "getUserRole"
    /\ ~Returned
    /\ Return(getUserRole(call.userId, call.lookupError))
    /\ UNCHANGED <<reads, inflight, roles, schema, user_roles, is_active, projects, sent, writes, issues, nextIssue, tasks, nextTask, req, resp>>

-----------------------------------------------------------------------------
(* Payloads.                                                               *)

IssueKeys == {"reporter_id", "assignee_id", "parent_issue_id", "sprint_id",
              "status", "internal_priority", "client_priority", "description"}

IssueKeyValues(k) ==
    CASE k = "reporter_id" -> Users
      [] k = "assignee_id" -> Users \cup {Null}
      [] k = "parent_issue_id" -> IssueIds \cup {Null}
      [] k = "sprint_id" -> {"s1"}
      [] k = "status" -> {"done"}
      [] k = "internal_priority" -> {"P1"}
      [] k = "client_priority" -> {"urgent"}
      [] k = "description" -> {"d"}

TaskKeys == {"created_by", "assigned_to", "status"}

TaskKeyValues(k) ==
    CASE k = "created_by" -> Users
      [] k = "assigned_to" -> Users \cup {Null}
      [] k = "status" -> {"done"}

\* Priority tokens: the legacy ones, the internal ones, one that is in
\* neither table and one that every object inherits as a property name.
LegacyTokens == {"highest", "high", "medium", "low", "lowest"}
InternalTokens == {"P1", "P2", "P3", "P4", "P5"}
PriorityTokens == LegacyTokens \cup InternalTokens \cup {"urgent", "toString"}

AllValues ==
    Users \cup IssueIds \cup RoleValues \cup PriorityTokens \cup
    {Null, "s1", "done", "d", JTrue, JFalse, StrTrue, StrFalse, "k", "K"}

\* Every JSON body over the keys with at most MaxKeys of them present.
Bodies(keys, vals(_)) ==
    UNION { { b \in [S -> AllValues] : \A k \in S : b[k] \in vals(k) } :
            S \in { T \in SUBSET keys : Cardinality(T) <= MaxKeys } }

IssueBodies == Bodies(IssueKeys, IssueKeyValues)
AssignBodies == Bodies({"assignee_id"}, IssueKeyValues)
ParentBodies == Bodies({"parent_issue_id"}, IssueKeyValues)

\* Bodies of the priority keys, the legacy one among them.
PriorityBodies ==
    Bodies({"internal_priority", "priority"}, LAMBDA k : PriorityTokens \cup {Null})

\* Bodies of an update that meets a store whose columns differ.
DriftBodies ==
    Bodies({"internal_priority", "priority", "exposed_to_client", "status"},
           LAMBDA k : CASE k = "internal_priority" -> {"P1"}
                        [] k = "priority" -> {"low"}
                        [] k = "exposed_to_client" -> {JTrue}
                        [] k = "status" -> {"done"})

\* Whether the role lookup of a request fails.
LookupErrors == BOOLEAN
TaskBodies == Bodies(TaskKeys, TaskKeyValues)

-----------------------------------------------------------------------------
(* Requests and responses.                                                 *)

\* outage: the write attempt of the request that finds the store
\* unavailable (0: none).
NoReq == [op |-> "none", actor |-> "-", id |-> "-", body |-> EmptyBody,
          lookupError |-> FALSE, outage |-> 0]

Request(op, actor, id, body, lookupError) ==
    [op |-> op, actor |-> actor, id |-> id, body |-> body,
     lookupError |-> lookupError, outage |-> 0]

\* Whether the store is unavailable to the request.
Outages == {0, 1}

\* No request is being handled.
Idle == req.op = "none"

Pending(op) == req.op = op /\ resp = 0

userRole == getUserRole(req.actor, req.lookupError)

\* The response is sent and the request ends.
Reply ==
    /\ req.op # "none"
    /\ resp # 0
    /\ req' = NoReq
    /\ resp' = 0
    /\ sent' = {}
    /\ writes' = <<>>
    /\ reads' = <<>>
    /\ UNCHANGED <<inflight, roles, schema, user_roles, is_active, projects, call, issues, nextIssue, tasks, nextTask>>

-----------------------------------------------------------------------------
(* Issues.                                                                 *)

priorityMap ==
    ("highest" :> "P1") @@ ("high" :> "P2") @@ ("medium" :> "P3") @@
    ("low" :> "P4") @@ ("lowest" :> "P5")

\* priorityMap[p] of an inherited name is a function, which is truthy and
\* which the JSON of the insert leaves out.
finalInternalPriority(internal_priority, priority) ==
    LET p == Or(internal_priority, Or(priority, "P3"))
    IN  IF p \in DOMAIN priorityMap THEN priorityMap[p]
        ELSE IF p \in ProtoNames THEN Undef
        ELSE p

\* A column the insert leaves out takes the column's default, NULL.
Column(v) == IF v = Undef THEN Null ELSE v

\* v === true || v === 'true'
IsTrue(v) == IF v \in {JTrue, StrTrue} THEN JTrue ELSE JFalse

\* The columns of an issue row.
IssueColumns == {"description", "status", "internal_priority", "client_priority",
                 "assignee_id", "reporter_id", "sprint_id", "parent_issue_id",
                 "exposed_to_client", "priority"}

\* The columns the insert names.
InsertColumns == IssueColumns \ {"priority"}

NewIssue(body, actor) ==
    [ description       |-> Column(Get(body, "description")),
      status            |-> Or(Get(body, "status"), "to_do"),
      internal_priority |-> Column(finalInternalPriority(Get(body, "internal_priority"),
                                                         Get(body, "priority"))),
      client_priority   |-> Or(Get(body, "client_priority"), Null),
      assignee_id       |-> Column(Get(body, "assignee_id")),
      reporter_id       |-> actor,
      sprint_id         |-> Column(Get(body, "sprint_id")),
      parent_issue_id   |-> Or(Get(body, "parent_issue_id"), Null),
      exposed_to_client |-> IsTrue(Get(body, "exposed_to_client")),
      priority          |-> Null ]

\* The issues table of a deployment: the columns it has, and whether
\* parent_issue_id is a foreign key to the table itself.
SchemaCurrent == [columns |-> IssueColumns, parentFK |-> FALSE]
SchemaLinked == [columns |-> IssueColumns, parentFK |-> TRUE]
SchemaMigrated == [columns |-> IssueColumns \ {"priority"}, parentFK |-> FALSE]
SchemaNoExposed == [columns |-> IssueColumns \ {"exposed_to_client"}, parentFK |-> FALSE]
SchemaLegacy ==
    [columns |-> IssueColumns \ {"internal_priority", "client_priority", "exposed_to_client"},
     parentFK |-> FALSE]

\* The result of a call to the store: whether it failed, and the phrases
\* the code looks for that the error's message holds.
Ok == [error |-> FALSE, message |-> {}]
Unavailable == [error |-> TRUE, message |-> {}]
ForeignKeyViolation == [error |-> TRUE, message |-> {}]

\* "Could not find the '<column>' column of 'issues' in the schema cache"
UnknownColumn(unknown) == [error |-> TRUE, message |-> {"schema cache"} \cup unknown]

\* Whether the value names no stored issue though the column is a foreign key.
Dangling(parent) == schema.parentFK /\ parent \notin (DOMAIN issues) \cup {Null, Undef}

\* update(rowData).eq('id', id).single() on a stored row.
StoreUpdate(rowData, down) ==
    IF down THEN Unavailable
    ELSE IF ~((DOMAIN rowData) \subseteq schema.columns)
    THEN UnknownColumn((DOMAIN rowData) \ schema.columns)
    ELSE IF Dangling(Get(rowData, "parent_issue_id")) THEN ForeignKeyViolation
    ELSE Ok

\* insert([row]).single()
StoreInsert(row) ==
    IF ~(InsertColumns \subseteq schema.columns)
    THEN UnknownColumn(InsertColumns \ schema.columns)
    ELSE IF Dangling(row.parent_issue_id) THEN ForeignKeyViolation
    ELSE Ok

\* delete().eq('id', id)
StoreDelete(id) ==
    IF schema.parentFK /\ \E i \in DOMAIN issues : issues[i].parent_issue_id = id
    THEN ForeignKeyViolation
    ELSE Ok

\* The permission check of issue creation.
CreateIssueDenied(role, actor, body) ==
    /\ Truthy(Get(body, "assignee_id"))
    /\ Get(body, "assignee_id") # actor
    /\ role # "team_leader"

\* update(data).eq('id', id): the row with the columns of data overwritten.
UpdateRow(row, data) ==
    [c \in DOMAIN row |-> IF c \in DOMAIN data THEN data[c] ELSE row[c]]

\* PickFields with the test of the field list left out.
PickFields_Unfiltered(body, allowedFields) == body

\* allowedFields.forEach: the submitted keys among allowedFields.
PickFields(body, allowedFields) ==
    [k \in (DOMAIN body) \cap allowedFields |-> body[k]]

ClientFields == {"client_priority", "description"}
MemberFields == {"status", "internal_priority"}

\* IssueUpdateData with the client branch sending the whole body.
IssueUpdateData_ClientUnmasked(role, body) ==
    IF role = "team_member" THEN PickFields(body, MemberFields)
    ELSE body

\* The data an issue update by this role sends to the store.
IssueUpdateData(role, body) ==
    IF role = "client" THEN PickFields(body, ClientFields)
    ELSE IF role = "team_member" THEN PickFields(body, MemberFields)
    ELSE body

\* IssueUpdateDenied with the reporter test left out.
IssueUpdateDenied_AssigneeOnly(role, actor, currentIssue) ==
    /\ role = "team_member"
    /\ currentIssue.assignee_id # actor

\* The 403 of the team_member branch.
IssueUpdateDenied(role, actor, currentIssue) ==
    /\ role = "team_member"
    /\ currentIssue.assignee_id # actor
    /\ currentIssue.reporter_id # actor

\* priorityToLegacy with the two lowest entries exchanged.
priorityToLegacy_Exchanged ==
    ("P1" :> "highest") @@ ("P2" :> "high") @@ ("P3" :> "medium") @@
    ("P4" :> "lowest") @@ ("P5" :> "low")

priorityToLegacy ==
    ("P1" :> "highest") @@ ("P2" :> "high") @@ ("P3" :> "medium") @@
    ("P4" :> "low") @@ ("P5" :> "lowest")

\* priorityToLegacy[pri] || pri; the function an inherited name yields is
\* left out of the JSON of the update.
toLegacy(pri) ==
    IF pri \in DOMAIN priorityToLegacy THEN priorityToLegacy[pri]
    ELSE IF pri \in ProtoNames THEN Undef
    ELSE pri

\* The entries of the payload whose value the JSON keeps.
Defined(payload) == [k \in {x \in DOMAIN payload : payload[x] # Undef} |-> payload[k]]

buildSafeUpdateBody(body) ==
    LET pri == Or(Get(body, "internal_priority"), Get(body, "priority"))
        kept == [k \in (DOMAIN body) \cap {"description", "status"} |-> body[k]]
        exposed == IF "exposed_to_client" \in DOMAIN body
                   THEN ("exposed_to_client" :> IsTrue(body["exposed_to_client"]))
                   ELSE EmptyBody
        legacy == IF pri # Undef THEN ("priority" :> toLegacy(pri)) ELSE EmptyBody
    IN  Defined(kept @@ exposed @@ legacy)

\* FallbackTriggered with every error retried.
FallbackTriggered_AnyError(result) == result.error

\* The test of the first write's error that starts the fallback.
FallbackTriggered(result) ==
    /\ result.error
    /\ result.message \cap {"schema cache", "client_priority", "internal_priority",
                            "estimated_days", "actual_days", "exposed_to_client"} # {}

Attempt(rowData, down) == [data |-> rowData, result |-> StoreUpdate(rowData, down)]

\* The update calls of a request that passed the permission checks, in order.
UpdateAttempts(role, body, outage) ==
    LET first == Attempt(IssueUpdateData(role, body), outage = 1)
    IN  IF role \notin {"client", "team_member"} /\ FallbackTriggered(first.result)
        THEN <<first, Attempt(buildSafeUpdateBody(body), outage = 2)>>
        ELSE <<first>>

\* The inputs of the field masks and of the two priority translations.
SanitizeCalls == [fn : {"sanitize"}, p : IssueBodies, m : {ClientFields, MemberFields}]

RoundTripCalls ==
    [fn : {"roundTrip"}, internal_priority : PriorityTokens \cup {Null, Undef},
     priority : PriorityTokens \cup {Null, Undef}]

\* The allowedFields loop applied to a payload, and to its own result.
ApplySanitize ==
    /\ call.fn = "sanitize"
    /\ ~Returned
    /\ Return([once  |-> PickFields(call.p, call.m),
               twice |-> PickFields(PickFields(call.p, call.m), call.m)])
    /\ UNCHANGED <<reads, inflight, roles, schema, user_roles, is_active, projects, sent, writes, issues, nextIssue, tasks, nextTask, req, resp>>

\* The normalization of the create, then the translation of the fallback.
ApplyRoundTrip ==
    /\ call.fn = "roundTrip"
    /\ ~Returned
    /\ LET normalized == finalInternalPriority(call.internal_priority, call.priority)
       IN  Return([normalized |-> normalized, legacy |-> toLegacy(normalized)])
    /\ UNCHANGED <<reads, inflight, roles, schema, user_roles, is_active, projects, sent, writes, issues, nextIssue, tasks, nextTask, req, resp>>

ReceiveCreateIssue(bodies, cap) ==
    /\ Idle
    /\ nextIssue <= cap
    /\ \E actor \in Users, body \in bodies, lookupError \in LookupErrors :
          req' = Request("createIssue", actor, "-", body, lookupError)
    /\ resp' = 0
    /\ UNCHANGED <<reads, inflight, roles, schema, user_roles, is_active, projects, call, sent, writes, issues, nextIssue, tasks, nextTask>>

\* POST /issues
HandleCreateIssue ==
    /\ Pending("createIssue")
    /\ IF CreateIssueDenied(userRole, req.actor, req.body)
       THEN /\ resp' = 403
            /\ UNCHANGED <<issues, nextIssue>>
       ELSE IF StoreInsert(NewIssue(req.body, req.actor)).error
       THEN /\ resp' = 500
            /\ UNCHANGED <<issues, nextIssue>>
       ELSE /\ issues' = (IssueIdSeq[nextIssue] :> NewIssue(req.body, req.actor)) @@ issues
            /\ nextIssue' = nextIssue + 1
            /\ resp' = 201
    /\ UNCHANGED <<reads, inflight, roles, schema, user_roles, is_active, projects, call, sent, writes, tasks, nextTask, req>>

ReceiveUpdateIssue(bodies, cap, outages) ==
    /\ Idle
    /\ \E actor \in Users, n \in 1..cap, body \in bodies, lookupError \in LookupErrors,
          outage \in outages :
          req' = [Request("updateIssue", actor, IssueIdSeq[n], body, lookupError)
                    EXCEPT !.outage = outage]
    /\ resp' = 0
    /\ UNCHANGED <<reads, inflight, roles, schema, user_roles, is_active, projects, call, sent, writes, issues, nextIssue, tasks, nextTask>>

\* PUT /issues/:id
HandleUpdateIssue ==
    /\ Pending("updateIssue")
    /\ IF req.id \notin DOMAIN issues
       THEN /\ resp' = 500
            /\ UNCHANGED <<issues, writes>>
       ELSE IF IssueUpdateDenied(userRole, req.actor, issues[req.id])
       THEN /\ resp' = 403
            /\ UNCHANGED <<issues, writes>>
       ELSE LET attempts == UpdateAttempts(userRole, req.body, req.outage)
                last == attempts[Len(attempts)]
            IN  /\ writes' = attempts
                /\ IF last.result.error
                   THEN /\ resp' = 500
                        /\ UNCHANGED issues
                   ELSE /\ issues' = [issues EXCEPT ![req.id] = UpdateRow(@, last.data)]
                        /\ resp' = 200
    /\ UNCHANGED <<reads, inflight, roles, schema, user_roles, is_active, projects, call, sent, nextIssue, tasks, nextTask, req>>

ReceiveDeleteIssue(cap) ==
    /\ Idle
    /\ \E actor \in Users, n \in 1..cap :
          req' = Request("deleteIssue", actor, IssueIdSeq[n], EmptyBody, FALSE)
    /\ resp' = 0
    /\ UNCHANGED <<reads, inflight, roles, schema, user_roles, is_active, projects, call, sent, writes, issues, nextIssue, tasks, nextTask>>

\* DELETE /issues/:id
HandleDeleteIssue ==
    /\ Pending("deleteIssue")
    /\ IF StoreDelete(req.id).error
       THEN /\ resp' = 500
            /\ UNCHANGED issues
       ELSE /\ issues' = [i \in (DOMAIN issues) \ {req.id} |-> issues[i]]
            /\ resp' = 200
    /\ UNCHANGED <<reads, inflight, roles, schema, user_roles, is_active, projects, call, sent, writes, nextIssue, tasks, nextTask, req>>

\* .single() of a query that matches no row.
NoRows == [error |-> TRUE, message |-> {"no rows"}]

\* select(...).eq('id', id).single()
StoreSelectSingle(id, down) ==
    IF down THEN Unavailable
    ELSE IF id \notin DOMAIN issues THEN NoRows
    ELSE Ok

\* select(...).eq('parent_issue_id', id)
StoreSelectSubtasks(id, down) == IF down THEN Unavailable ELSE Ok

\* The queries of the single-issue view, in order: the issue, its parent
\* when it names one, and its subtasks.  outage numbers the query that
\* finds the store unavailable.
ViewReads(id, outage) ==
    LET first == <<[query |-> "issue", result |-> StoreSelectSingle(id, outage = 1)]>>
        parent == IF first[1].result.error THEN Null ELSE issues[id].parent_issue_id
        second == IF Truthy(parent)
                  THEN <<[query |-> "parent", result |-> StoreSelectSingle(parent, outage = 2)]>>
                  ELSE <<>>
        third == <<[query |-> "subtasks",
                    result |-> StoreSelectSubtasks(id, outage = Len(second) + 2)]>>
    IN  IF first[1].result.error THEN first ELSE first \o second \o third

ViewOutages == {0, 1, 2, 3}

ReceiveViewIssue(cap) ==
    /\ Idle
    /\ \E actor \in Users, n \in 1..cap, outage \in ViewOutages :
          req' = [Request("viewIssue", actor, IssueIdSeq[n], EmptyBody, FALSE)
                    EXCEPT !.outage = outage]
    /\ resp' = 0
    /\ UNCHANGED <<reads, inflight, roles, schema, user_roles, is_active, projects, call, sent, writes, issues, nextIssue, tasks, nextTask>>

\* GET /issues/:id
HandleViewIssue ==
    /\ Pending("viewIssue")
    /\ LET queries == ViewReads(req.id, req.outage)
           failed(q) == \E n \in DOMAIN queries : queries[n].query = q /\ queries[n].result.error
           asked(q) == \E n \in DOMAIN queries : queries[n].query = q
       IN  /\ reads' = queries
           /\ IF failed("issue")
              THEN /\ resp' = 500
                   /\ UNCHANGED sent
              ELSE /\ resp' = 200
                   /\ sent' = {[issue |-> issues[req.id],
                                parent_issue |-> IF asked("parent") /\ ~failed("parent")
                                                 THEN issues[req.id].parent_issue_id
                                                 ELSE Null,
                                subtasks |-> IF failed("subtasks") THEN {}
                                             ELSE {i \in DOMAIN issues :
                                                      issues[i].parent_issue_id = req.id}]}
    /\ UNCHANGED <<inflight, roles, schema, user_roles, is_active, projects, call, writes, issues, nextIssue, tasks, nextTask, req>>

\* Issue updates that run concurrently: each handler reads the issue, and
\* checks and writes in a later step.
Handlers == {"h1", "h2"}

NoFlight == [pc |-> "idle"]

\* Bodies of updates that reassign an issue or move its status.
RaceBodies ==
    Bodies({"assignee_id", "status"},
           LAMBDA k : IF k = "assignee_id" THEN Users ELSE {"done"})

\* PUT /issues/:id arrives at a handler.
BeginUpdateIssue(h) ==
    /\ inflight[h].pc = "idle"
    /\ \E actor \in Users, id \in IssueIds, body \in RaceBodies :
          inflight' = [inflight EXCEPT
              ![h] = [pc |-> "fetch", actor |-> actor, id |-> id, body |-> body]]
    /\ UNCHANGED <<reads, roles, schema, user_roles, is_active, projects, call, sent, writes, issues, nextIssue, tasks, nextTask, req, resp>>

\* The role lookup and the read of the current issue.
FetchCurrentIssue(h) ==
    /\ inflight[h].pc = "fetch"
    /\ \E lookupError \in LookupErrors :
          inflight' = [inflight EXCEPT ![h] =
              IF inflight[h].id \notin DOMAIN issues
              THEN [pc |-> "done", status |-> 500] @@ inflight[h]
              ELSE [pc |-> "write",
                    role |-> getUserRole(inflight[h].actor, lookupError),
                    fetched |-> issues[inflight[h].id]] @@ inflight[h]]
    /\ UNCHANGED <<reads, roles, schema, user_roles, is_active, projects, call, sent, writes, issues, nextIssue, tasks, nextTask, req, resp>>

\* currentIssue read again from the store when the check is made.
currentIssue_Reread(flight) == issues[flight.id]

\* The row the permission check tests: the one the handler read.
currentIssue(flight) == flight.fetched

\* The permission check on the row that was read, then the write to the
\* row as it is now; the response carries the row the write returns.
WriteIssue(h) ==
    /\ inflight[h].pc = "write"
    /\ LET flight == inflight[h]
           attempts == UpdateAttempts(flight.role, flight.body, 0)
           last == attempts[Len(attempts)]
       IN  IF IssueUpdateDenied(flight.role, flight.actor, currentIssue(flight))
           THEN /\ inflight' = [inflight EXCEPT ![h] = [pc |-> "done", status |-> 403] @@ flight]
                /\ UNCHANGED issues
           ELSE IF flight.id \notin DOMAIN issues \/ last.result.error
           THEN /\ inflight' = [inflight EXCEPT ![h] = [pc |-> "done", status |-> 500] @@ flight]
                /\ UNCHANGED issues
           ELSE /\ issues' = [issues EXCEPT ![flight.id] = UpdateRow(@, last.data)]
                /\ inflight' = [inflight EXCEPT ![h] =
                      [pc |-> "done", status |-> 200, issue |-> issues'[flight.id]] @@ flight]
    /\ UNCHANGED <<reads, roles, schema, user_roles, is_active, projects, call, sent, writes, nextIssue, tasks, nextTask, req, resp>>

\* The response is sent and the handler is free.
EndUpdateIssue(h) ==
    /\ inflight[h].pc = "done"
    /\ inflight' = [inflight EXCEPT ![h] = NoFlight]
    /\ UNCHANGED <<reads, roles, schema, user_roles, is_active, projects, call, sent, writes, issues, nextIssue, tasks, nextTask, req, resp>>

-----------------------------------------------------------------------------
(* Tasks.                                                                  *)

isManager(role) == role \in {"team_leader", "admin", "superadmin"}

\* CreateTaskDenied with the manager test inverted.
CreateTaskDenied_Inverted(role, actor, body) ==
    /\ Truthy(Get(body, "assigned_to"))
    /\ Get(body, "assigned_to") # actor
    /\ isManager(role)

\* server.js: only managers assign tasks to others.
CreateTaskDenied(role, actor, body) ==
    /\ Truthy(Get(body, "assigned_to"))
    /\ Get(body, "assigned_to") # actor
    /\ ~isManager(role)

\* The second copy of the route: only team leaders assign tasks to others.
CreateTaskDeniedCopy(role, actor, body) ==
    /\ Truthy(Get(body, "assigned_to"))
    /\ Get(body, "assigned_to") # actor
    /\ role # "team_leader"

\* taskData: the body with created_by, assigned_to and status set over it.
NewTask(body, actor) ==
    [ created_by  |-> actor,
      assigned_to |-> Or(Get(body, "assigned_to"), actor),
      status      |-> Or(Get(body, "status"), "pending") ]

\* The 403s of the task update.
UpdateTaskDenied(role, actor, task, body) ==
    IF role = "user" THEN task.created_by # actor
    ELSE IF role = "team_member"
    THEN \/ (task.assigned_to # actor /\ task.created_by # actor)
         \/ (Truthy(Get(body, "assigned_to")) /\ Get(body, "assigned_to") # task.assigned_to)
    ELSE FALSE

DeleteTaskDenied(role, actor, task) ==
    task.created_by # actor /\ ~isManager(role)

ReceiveCreateTask ==
    /\ Idle
    /\ nextTask <= MaxTasks
    /\ \E op \in {"createTask", "createTaskCopy"}, actor \in Users, body \in TaskBodies,
          lookupError \in LookupErrors :
          req' = Request(op, actor, "-", body, lookupError)
    /\ resp' = 0
    /\ UNCHANGED <<reads, inflight, roles, schema, user_roles, is_active, projects, call, sent, writes, issues, nextIssue, tasks, nextTask>>

InsertTask(denied) ==
    /\ IF denied
       THEN /\ resp' = 403
            /\ UNCHANGED <<tasks, nextTask>>
       ELSE /\ tasks' = (TaskIdSeq[nextTask] :> NewTask(req.body, req.actor)) @@ tasks
            /\ nextTask' = nextTask + 1
            /\ resp' = 201
    /\ UNCHANGED <<reads, inflight, roles, schema, user_roles, is_active, projects, call, sent, writes, issues, nextIssue, req>>

\* POST /api/tasks (server.js)
HandleCreateTask ==
    /\ Pending("createTask")
    /\ InsertTask(CreateTaskDenied(userRole, req.actor, req.body))

\* POST /api/tasks (the copy in jira_api.js)
HandleCreateTaskCopy ==
    /\ Pending("createTaskCopy")
    /\ InsertTask(CreateTaskDeniedCopy(userRole, req.actor, req.body))

ReceiveUpdateTask ==
    /\ Idle
    /\ \E actor \in Users, id \in TaskIds, body \in TaskBodies, lookupError \in LookupErrors :
          req' = Request("updateTask", actor, id, body, lookupError)
    /\ resp' = 0
    /\ UNCHANGED <<reads, inflight, roles, schema, user_roles, is_active, projects, call, sent, writes, issues, nextIssue, tasks, nextTask>>

\* PUT /api/tasks/:id
HandleUpdateTask ==
    /\ Pending("updateTask")
    /\ IF req.id \notin DOMAIN tasks
       THEN /\ resp' = 500
            /\ UNCHANGED tasks
       ELSE IF UpdateTaskDenied(userRole, req.actor, tasks[req.id], req.body)
       THEN /\ resp' = 403
            /\ UNCHANGED tasks
       ELSE /\ tasks' = [tasks EXCEPT ![req.id] = UpdateRow(@, req.body)]
            /\ resp' = 200
    /\ UNCHANGED <<reads, inflight, roles, schema, user_roles, is_active, projects, call, sent, writes, issues, nextIssue, nextTask, req>>

ReceiveDeleteTask ==
    /\ Idle
    /\ \E actor \in Users, id \in TaskIds, lookupError \in LookupErrors :
          req' = Request("deleteTask", actor, id, EmptyBody, lookupError)
    /\ resp' = 0
    /\ UNCHANGED <<reads, inflight, roles, schema, user_roles, is_active, projects, call, sent, writes, issues, nextIssue, tasks, nextTask>>

\* DELETE /api/tasks/:id
HandleDeleteTask ==
    /\ Pending("deleteTask")
    /\ IF req.id \notin DOMAIN tasks
       THEN /\ resp' = 500
            /\ UNCHANGED tasks
       ELSE IF DeleteTaskDenied(userRole, req.actor, tasks[req.id])
       THEN /\ resp' = 403
            /\ UNCHANGED tasks
       ELSE /\ tasks' = [i \in (DOMAIN tasks) \ {req.id} |-> tasks[i]]
            /\ resp' = 200
    /\ UNCHANGED <<reads, inflight, roles, schema, user_roles, is_active, projects, call, sent, writes, issues, nextIssue, nextTask, req>>

-----------------------------------------------------------------------------
(* Projects.                                                               *)

ProjectBodies ==
    Bodies({"key", "lead_id"}, LAMBDA k : IF k = "key" THEN {"k", "K", Null} ELSE Users)

\* key.toUpperCase()
toUpperCase(key) == IF key = "k" THEN "K" ELSE key

ReceiveListProjects ==
    /\ Idle
    /\ \E actor \in Users, outage \in Outages :
          req' = [Request("listProjects", actor, "-", EmptyBody, FALSE) EXCEPT !.outage = outage]
    /\ resp' = 0
    /\ UNCHANGED <<reads, inflight, roles, schema, user_roles, is_active, projects, call, sent, writes, issues, nextIssue, tasks, nextTask>>

\* GET /projects
HandleListProjects ==
    /\ Pending("listProjects")
    /\ IF req.outage = 1
       THEN /\ resp' = 500
            /\ UNCHANGED sent
       ELSE /\ resp' = 200
            /\ sent' = DOMAIN projects
    /\ UNCHANGED <<reads, inflight, roles, schema, user_roles, is_active, projects, call, writes, issues, nextIssue, tasks, nextTask, req>>

ReceiveCreateProject ==
    /\ Idle
    /\ Cardinality(DOMAIN projects) < MaxProjects
    /\ \E actor \in Users, body \in ProjectBodies, outage \in Outages :
          req' = [Request("createProject", actor, "-", body, FALSE) EXCEPT !.outage = outage]
    /\ resp' = 0
    /\ UNCHANGED <<reads, inflight, roles, schema, user_roles, is_active, projects, call, sent, writes, issues, nextIssue, tasks, nextTask>>

\* POST /projects: toUpperCase of a missing or null key throws.
HandleCreateProject ==
    /\ Pending("createProject")
    /\ IF Get(req.body, "key") \in {Undef, Null} \/ req.outage = 1
       THEN /\ resp' = 500
            /\ UNCHANGED projects
       ELSE /\ projects' =
                  (ProjectIdSeq[Cardinality(DOMAIN projects) + 1] :>
                      [key        |-> toUpperCase(req.body["key"]),
                       lead_id    |-> Or(Get(req.body, "lead_id"), req.actor),
                       created_by |-> req.actor]) @@ projects
            /\ resp' = 201
    /\ UNCHANGED <<reads, inflight, roles, schema, user_roles, is_active, call, sent, writes, issues, nextIssue, tasks, nextTask, req>>

-----------------------------------------------------------------------------
(* Users.                                                                  *)

RoleBodies == Bodies({"role"}, LAMBDA k : RoleValues \cup {Null})
ActiveBodies == Bodies({"active"}, LAMBDA k : {JTrue, JFalse, StrFalse, Null})

ReceiveListUsers ==
    /\ Idle
    /\ \E actor \in Users, lookupError \in LookupErrors, outage \in Outages :
          req' = [Request("listUsers", actor, "-", EmptyBody, lookupError)
                    EXCEPT !.outage = outage]
    /\ resp' = 0
    /\ UNCHANGED <<reads, inflight, roles, schema, user_roles, is_active, projects, call, sent, writes, issues, nextIssue, tasks, nextTask>>

\* GET /api/users: one entry per profile, and every identity has a profile.
HandleListUsers ==
    /\ Pending("listUsers")
    /\ IF ~canViewAllUsers(userRole)
       THEN /\ resp' = 403
            /\ UNCHANGED sent
       ELSE IF req.outage = 1
       THEN /\ resp' = 500
            /\ UNCHANGED sent
       ELSE /\ resp' = 200
            /\ sent' = Users
    /\ UNCHANGED <<reads, inflight, roles, schema, user_roles, is_active, projects, call, writes, issues, nextIssue, tasks, nextTask, req>>

ReceiveManageUser ==
    /\ Idle
    /\ \E actor \in Users, userId \in Users, lookupError \in LookupErrors, outage \in Outages :
          \/ \E body \in RoleBodies :
                req' = [Request("setRole", actor, userId, body, lookupError)
                          EXCEPT !.outage = outage]
          \/ \E body \in ActiveBodies :
                req' = [Request("setActive", actor, userId, body, lookupError)
                          EXCEPT !.outage = outage]
    /\ resp' = 0
    /\ UNCHANGED <<reads, inflight, roles, schema, user_roles, is_active, projects, call, sent, writes, issues, nextIssue, tasks, nextTask>>

\* ManageUsersDenied with the flag of the listing tested instead.
ManageUsersDenied_ViewFlag(currentUserRole) == ~canViewAllUsers(currentUserRole)

\* The 403 of the two user-management routes.
ManageUsersDenied(currentUserRole) == ~canManageUsers(currentUserRole)

\* PUT /api/admin/users/:userId/role
HandleSetRole ==
    /\ Pending("setRole")
    /\ IF ManageUsersDenied(userRole)
       THEN /\ resp' = 403
            /\ UNCHANGED user_roles
       ELSE IF Get(req.body, "role") \notin KnownRoles
       THEN /\ resp' = 400
            /\ UNCHANGED user_roles
       ELSE IF req.outage = 1
       THEN /\ resp' = 500
            /\ UNCHANGED user_roles
       ELSE /\ user_roles' = [user_roles EXCEPT ![req.id] = req.body["role"]]
            /\ resp' = 200
    /\ UNCHANGED <<reads, inflight, roles, schema, is_active, projects, call, sent, writes, issues, nextIssue, tasks, nextTask, req>>

\* PUT /api/admin/users/:userId/active: the update finds no row to return
\* when the user has none.
HandleSetActive ==
    /\ Pending("setActive")
    /\ IF ManageUsersDenied(userRole)
       THEN /\ resp' = 403
            /\ UNCHANGED is_active
       ELSE IF req.outage = 1 \/ user_roles[req.id] = NoRow
       THEN /\ resp' = 500
            /\ UNCHANGED is_active
       ELSE /\ is_active' = [is_active EXCEPT
                  ![req.id] = IF Get(req.body, "active") = JFalse THEN JFalse ELSE JTrue]
            /\ resp' = 200
    /\ UNCHANGED <<reads, inflight, roles, schema, user_roles, projects, call, sent, writes, issues, nextIssue, tasks, nextTask, req>>

-----------------------------------------------------------------------------
(* Configurations and role tables the runs start from.                     *)

\* A tiered deployment: the manager roles hold every project capability.
CfgTiered ==
    ("user" :> [global |-> {}, project |-> {"canCreateIssues"}]) @@
    ("team_member" :> [global |-> {}, project |-> {"canCreateIssues"}]) @@
    ("client" :> NoCaps) @@
    ("team_leader" :> [global |-> {"canViewAllUsers", "canViewAllProjects"}, project |-> ProjectCaps]) @@
    ("admin" :> AllCaps) @@
    ("superadmin" :> AllCaps)

\* Only the team leader assigns to others; every listed role creates issues.
CfgLeader ==
    [r \in KnownRoles |->
        [global |-> {},
         project |-> IF r = "team_leader" THEN {"canCreateIssues", "canAssignIssuesToOthers"}
                     ELSE {"canCreateIssues"}]]

Configs == {CfgTiered, CfgLeader}

\* A configuration that lists no user role.
CfgAdminOnly == [r \in {"admin"} |-> AllCaps]

\* The first identity holds any role or none; the second has no row.
RoleTables == { t \in [Users -> RoleValues \cup {NoRow}] : t["u2"] = NoRow }

InitStore ==
    /\ user_roles \in RoleTables
    /\ is_active = [u \in Users |-> JTrue]
    /\ projects = [i \in {} |-> Null]
    /\ sent = {}
    /\ writes = <<>>
    /\ issues = [i \in {} |-> Null]
    /\ nextIssue = 1
    /\ tasks = [i \in {} |-> Null]
    /\ nextTask = 1
    /\ req = NoReq
    /\ resp = 0
    /\ inflight = [h \in Handlers |-> NoFlight]
    /\ reads = <<>>

Init == roles = CfgTiered /\ schema = SchemaCurrent /\ call = NoCall /\ InitStore

\* The issue routes over one issue.
Next ==
    \/ ReceiveCreateIssue(IssueBodies, MaxIssues)
    \/ HandleCreateIssue
    \/ ReceiveUpdateIssue(IssueBodies, MaxIssues, {0})
    \/ HandleUpdateIssue
    \/ ReceiveDeleteIssue(MaxIssues)
    \/ HandleDeleteIssue
    \/ Reply

Spec == Init /\ [][Next]_vars

\* Issue creation under each configuration.
InitCaps == roles \in Configs /\ schema = SchemaCurrent /\ call = NoCall /\ InitStore

NextCaps ==
    \/ ReceiveCreateIssue(AssignBodies, MaxLinked)
    \/ HandleCreateIssue
    \/ Reply

SpecCaps == InitCaps /\ [][NextCaps]_vars

\* The issue routes over linked issues: bodies carry parent_issue_id.
NextHierarchy ==
    \/ ReceiveCreateIssue(ParentBodies, MaxLinked)
    \/ HandleCreateIssue
    \/ ReceiveUpdateIssue(ParentBodies, MaxLinked, {0})
    \/ HandleUpdateIssue
    \/ ReceiveDeleteIssue(MaxLinked)
    \/ HandleDeleteIssue
    \/ Reply

SpecHierarchy == Init /\ [][NextHierarchy]_vars

\* The task routes.
NextTasks ==
    \/ ReceiveCreateTask
    \/ HandleCreateTask
    \/ HandleCreateTaskCopy
    \/ ReceiveUpdateTask
    \/ HandleUpdateTask
    \/ ReceiveDeleteTask
    \/ HandleDeleteTask
    \/ Reply

SpecTasks == Init /\ [][NextTasks]_vars

\* Issue creation over the priority keys.
NextNormalize ==
    \/ ReceiveCreateIssue(PriorityBodies, MaxIssues)
    \/ HandleCreateIssue
    \/ Reply

SpecNormalize == Init /\ [][NextNormalize]_vars

\* The issues tables the update may meet, and the row a table that lacks
\* columns of the insert already holds.
Schemas == {SchemaCurrent, SchemaMigrated, SchemaNoExposed, SchemaLegacy}

SeedIssue ==
    [c \in IssueColumns |->
        IF c = "reporter_id" THEN "u1" ELSE IF c = "status" THEN "to_do" ELSE Null]

InitDrift ==
    /\ roles = CfgTiered
    /\ schema \in Schemas
    /\ user_roles \in RoleTables
    /\ is_active = [u \in Users |-> JTrue]
    /\ projects = [i \in {} |-> Null]
    /\ \/ issues = [i \in {} |-> Null] /\ nextIssue = 1
       \/ issues = (IssueIdSeq[1] :> SeedIssue) /\ nextIssue = 2
    /\ tasks = [i \in {} |-> Null]
    /\ nextTask = 1
    /\ req = NoReq
    /\ resp = 0
    /\ sent = {}
    /\ writes = <<>>
    /\ call = NoCall
    /\ inflight = [h \in Handlers |-> NoFlight]
    /\ reads = <<>>

\* Issue creation and update against each table, with store outages.
NextDrift ==
    \/ ReceiveCreateIssue(DriftBodies, MaxIssues)
    \/ HandleCreateIssue
    \/ ReceiveUpdateIssue(DriftBodies, MaxIssues, {0, 1, 2})
    \/ HandleUpdateIssue
    \/ Reply

SpecDrift == InitDrift /\ [][NextDrift]_vars

\* The issue routes over linked issues, with and without the foreign key.
InitOrphans ==
    /\ roles = CfgTiered
    /\ schema \in {SchemaCurrent, SchemaLinked}
    /\ call = NoCall
    /\ InitStore

SpecOrphans == InitOrphans /\ [][NextHierarchy]_vars

\* The role registry and the role lookup applied to each input.
InitRoles ==
    /\ roles \in Configs \cup {CfgAdminOnly}
    /\ schema = SchemaCurrent
    /\ call \in RoleCalls
    /\ InitStore

NextRoles ==
    \/ ApplyCapability
    \/ ApplyGetUserRole

SpecRoles == InitRoles /\ [][NextRoles]_vars

\* The field masks and the priority translations applied to each input.
InitFunctions ==
    /\ roles = CfgTiered
    /\ schema = SchemaCurrent
    /\ call \in SanitizeCalls \cup RoundTripCalls
    /\ InitStore

NextFunctions ==
    \/ ApplySanitize
    \/ ApplyRoundTrip

SpecFunctions == InitFunctions /\ [][NextFunctions]_vars

\* The project routes.
NextProjects ==
    \/ ReceiveListProjects
    \/ HandleListProjects
    \/ ReceiveCreateProject
    \/ HandleCreateProject
    \/ Reply

SpecProjects == InitCaps /\ [][NextProjects]_vars

\* The user routes.
NextUsers ==
    \/ ReceiveListUsers
    \/ HandleListUsers
    \/ ReceiveManageUser
    \/ HandleSetRole
    \/ HandleSetActive
    \/ Reply

SpecUsers == InitCaps /\ [][NextUsers]_vars

\* Bodies that link an issue to a parent or set its internal priority.
LinkBodies ==
    Bodies({"parent_issue_id", "internal_priority"},
           LAMBDA k : IF k = "parent_issue_id" THEN IssueIds \cup {Null} ELSE {"P1"})

\* The issue routes and the single-issue view, against a table with or
\* without the foreign key or the newer columns, and with store outages.
InitErrors ==
    /\ roles = CfgTiered
    /\ schema \in {SchemaCurrent, SchemaLinked, SchemaLegacy}
    /\ user_roles \in RoleTables
    /\ is_active = [u \in Users |-> JTrue]
    /\ projects = [i \in {} |-> Null]
    /\ \/ issues = [i \in {} |-> Null] /\ nextIssue = 1
       \/ issues = (IssueIdSeq[1] :> SeedIssue) /\ nextIssue = 2
    /\ tasks = [i \in {} |-> Null]
    /\ nextTask = 1
    /\ req = NoReq
    /\ resp = 0
    /\ sent = {}
    /\ writes = <<>>
    /\ call = NoCall
    /\ inflight = [h \in Handlers |-> NoFlight]
    /\ reads = <<>>

NextErrors ==
    \/ ReceiveCreateIssue(LinkBodies, MaxLinked)
    \/ HandleCreateIssue
    \/ ReceiveUpdateIssue(LinkBodies, MaxLinked, {0, 1, 2})
    \/ HandleUpdateIssue
    \/ ReceiveDeleteIssue(MaxLinked)
    \/ HandleDeleteIssue
    \/ ReceiveViewIssue(MaxLinked)
    \/ HandleViewIssue
    \/ Reply

SpecErrors == InitErrors /\ [][NextErrors]_vars

\* Two handlers update the stored issue at once; one identity is a team
\* member and the other a team leader.
RaceTables == { t \in [Users -> {"team_member", "team_leader"}] : t["u1"] # t["u2"] }

InitRace ==
    /\ roles = CfgTiered
    /\ schema = SchemaCurrent
    /\ user_roles \in RaceTables
    /\ is_active = [u \in Users |-> JTrue]
    /\ projects = [i \in {} |-> Null]
    /\ \E reporter \in Users, assignee \in Users \cup {Null} :
          issues = (IssueIdSeq[1] :>
                       [SeedIssue EXCEPT !.reporter_id = reporter, !.assignee_id = assignee])
    /\ nextIssue = 2
    /\ tasks = [i \in {} |-> Null]
    /\ nextTask = 1
    /\ req = NoReq
    /\ resp = 0
    /\ sent = {}
    /\ writes = <<>>
    /\ call = NoCall
    /\ inflight = [h \in Handlers |-> NoFlight]
    /\ reads = <<>>

NextRace ==
    \E h \in Handlers :
        \/ BeginUpdateIssue(h)
        \/ FetchCurrentIssue(h)
        \/ WriteIssue(h)
        \/ EndUpdateIssue(h)

SpecRace == InitRace /\ [][NextRace]_vars

-----------------------------------------------------------------------------
(* Properties.                                                             *)

ManagerTier == {"team_leader", "admin", "superadmin"}

\* The handler of the request has run and its response is not yet sent.
Handled(op) == req.op = op /\ resp # 0

\* The row with exactly the submitted keys among fields overwritten.
Masked(row, body, fields) ==
    [c \in IssueColumns |-> IF c \in fields /\ c \in DOMAIN body THEN body[c] ELSE row[c]]

\* C1: no request changes the reporter_id of a stored issue: it stays the
\* identity that created the issue.
C1_ReporterNeverChanges ==
    [][\A i \in (DOMAIN issues) \cap (DOMAIN issues') :
          issues'[i].reporter_id = issues[i].reporter_id]_vars

\* C2: an issue update by a client succeeds and writes exactly the submitted
\* keys among client_priority and description; every other column of the
\* stored issue keeps its value.
C2_ClientWritesOnlyItsFields ==
    [][(Pending("updateIssue") /\ userRole = "client" /\ req.id \in DOMAIN issues)
         => /\ resp' = 200
            /\ issues' = [issues EXCEPT
                 ![req.id] = Masked(@, req.body, {"client_priority", "description"})]]_vars

C2_Witness ==
    /\ Handled("updateIssue")
    /\ userRole = "client"
    /\ resp = 200
    /\ req.body = ("status" :> "done") @@ ("client_priority" :> "urgent")
    /\ issues[req.id].client_priority = "urgent"
    /\ issues[req.id].status = "to_do"

\* C3: an issue update by a team_member who is neither the assignee nor the
\* reporter of the fetched issue is answered 403 and writes nothing; otherwise
\* it writes exactly the submitted keys among status and internal_priority.
C3_MemberOwnershipAndMask ==
    [][(Pending("updateIssue") /\ userRole = "team_member" /\ req.id \in DOMAIN issues)
         => IF issues[req.id].assignee_id # req.actor /\ issues[req.id].reporter_id # req.actor
            THEN resp' = 403 /\ issues' = issues
            ELSE /\ resp' = 200
                 /\ issues' = [issues EXCEPT
                      ![req.id] = Masked(@, req.body, {"status", "internal_priority"})]]_vars

C3_Witness ==
    /\ Handled("updateIssue")
    /\ userRole = "team_member"
    /\ resp = 403
    /\ "status" \in DOMAIN req.body
    /\ req.id \in DOMAIN issues
    /\ issues[req.id].assignee_id # req.actor
    /\ issues[req.id].reporter_id # req.actor
    /\ issues[req.id].status = "to_do"

\* C4: an issue update by an actor whose resolved role is outside the manager
\* tier changes no column other than client_priority, description, status and
\* internal_priority.
C4_OnlyManagersWriteOtherFields ==
    [][(Pending("updateIssue") /\ userRole \notin ManagerTier /\ req.id \in DOMAIN issues)
         => \A c \in IssueColumns \ {"client_priority", "description", "status", "internal_priority"} :
               issues'[req.id][c] = issues[req.id][c]]_vars

\* C5: an issue create naming an assignee other than the actor is answered
\* 403 exactly when the role lacks canAssignIssuesToOthers, and a create
\* naming the actor (or nobody) is never answered 403.
C5_AssignToOtherFollowsCapability ==
    Handled("createIssue") =>
        LET a == Get(req.body, "assignee_id")
        IN  IF Truthy(a) /\ a # req.actor
            THEN (resp = 403) <=> ~canAssignIssuesToOthers(userRole)
            ELSE resp # 403

\* C10: an issue is inserted only for a role that has canCreateIssues.
C10_CreateNeedsCapability ==
    (Handled("createIssue") /\ resp = 201) => canCreateIssues(userRole)

\* C9: no stored issue with a parent is itself the parent of another issue.
C9_OneLevelHierarchy ==
    \A i \in DOMAIN issues :
        issues[i].parent_issue_id # Null =>
            ~ \E j \in (DOMAIN issues) \ {i} : issues[j].parent_issue_id = i

\* C6: a task create naming an assignee other than the actor inserts a task
\* only for a manager-tier role and is answered 403 with no insert for every
\* other role; a create naming the actor, or nobody, inserts for every role.
C6_TaskAssignToOther ==
    [][(Pending("createTask") \/ Pending("createTaskCopy"))
         => LET a == Get(req.body, "assigned_to")
                other == a \notin {Undef, Null} /\ a # req.actor
            IN  /\ (other /\ userRole \notin ManagerTier) => (resp' = 403 /\ tasks' = tasks)
                /\ (other /\ tasks' # tasks) => userRole \in ManagerTier
                /\ ~other => (resp' = 201 /\ DOMAIN tasks' # DOMAIN tasks)]_vars

C6_Witness ==
    /\ Handled("createTask")
    /\ resp = 403
    /\ userRole = "client"
    /\ Get(req.body, "assigned_to") \in Users \ {req.actor}
    /\ tasks = [i \in {} |-> Null]

\* C7: a task update changes the stored task only if the actor is manager
\* tier, or has role user and created the task, or has role team_member and
\* is the task's assignee or creator.
C7_TaskUpdateOnlyByOwnersAndManagers ==
    [][(Pending("updateTask") /\ req.id \in DOMAIN tasks /\ tasks' # tasks)
         => \/ userRole \in ManagerTier
            \/ (userRole = "user" /\ tasks[req.id].created_by = req.actor)
            \/ (userRole = "team_member" /\ (tasks[req.id].assigned_to = req.actor
                                             \/ tasks[req.id].created_by = req.actor))]_vars

\* C8: a task update by a team_member leaves the task's assigned_to as it was.
C8_MemberNeverChangesAssignee ==
    [][(Pending("updateTask") /\ userRole = "team_member" /\ req.id \in DOMAIN tasks)
         => tasks'[req.id].assigned_to = tasks[req.id].assigned_to]_vars

C12_ProjectsGated ==
    /\ (Handled("createProject") /\ resp = 201) => canUserCreateProject(userRole)
    /\ (Handled("listProjects") /\ resp = 200 /\ sent = DOMAIN projects /\ sent # {})
          => canViewAllProjects(userRole)

\* C13: an identity without a role row, or whose lookup fails, resolves to
\* user; and for a role name the configuration does not list, every
\* capability predicate returns what it returns for user.
C13_UnknownRoleResolvesToUser ==
    /\ (call.fn = "getUserRole" /\ Returned
           /\ (call.lookupError \/ user_roles[call.userId] = NoRow))
          => call.ret = "user"
    /\ (call.fn = "capability" /\ Returned
           /\ call.globalRole \notin DOMAIN roles)
          => call.ret = Bool(Capability(call.cap, "user"))

\* The tables of the priority normalizer as the specification gives them.
LegacyToInternal(t) ==
    CASE t = "highest" -> "P1" [] t = "high" -> "P2" [] t = "medium" -> "P3"
      [] t = "low" -> "P4" [] t = "lowest" -> "P5" [] OTHER -> t

InternalToLegacy(t) ==
    CASE t = "P1" -> "highest" [] t = "P2" -> "high" [] t = "P3" -> "medium"
      [] t = "P4" -> "low" [] t = "P5" -> "lowest" [] OTHER -> t

Supplied(v) == v \notin {Undef, Null}

\* C14: when a create or an update that succeeds supplies both
\* internal_priority and the legacy priority, the priority columns of the
\* written row hold nothing but their former value or a value derived from
\* internal_priority: the legacy value is not recorded.
C14_InternalPriorityWins ==
    [][((Pending("createIssue") \/ (Pending("updateIssue") /\ userRole \in ManagerTier))
          /\ Supplied(Get(req.body, "internal_priority"))
          /\ Supplied(Get(req.body, "priority"))
          /\ resp' \in {200, 201})
        => LET id == IF req.op = "createIssue" THEN IssueIdSeq[nextIssue] ELSE req.id
               internal == req.body["internal_priority"]
               before == IF id \in DOMAIN issues THEN issues[id]
                         ELSE [c \in IssueColumns |-> Null]
           IN  /\ issues'[id].internal_priority \in
                     {before.internal_priority, internal, LegacyToInternal(internal)}
               /\ issues'[id].priority \in
                     {before.priority, InternalToLegacy(LegacyToInternal(internal))}]_vars

\* C15: a create without internal_priority stores the table image of the
\* legacy priority, P3 when there is no legacy priority either, and a
\* token of neither table unchanged; the token never makes the create fail.
C15_LegacyImageOnCreate ==
    (Handled("createIssue") /\ ~Supplied(Get(req.body, "internal_priority")))
        => LET legacy == Get(req.body, "priority")
           IN  /\ resp = 201
               /\ issues[IssueIdSeq[nextIssue - 1]].internal_priority =
                     IF Supplied(legacy) THEN LegacyToInternal(legacy) ELSE "P3"

\* C16: a legacy token supplied as internal_priority, with any legacy
\* priority or none beside it, comes back from the create normalization
\* followed by the fallback's translation; and the two tables are inverse
\* bijections between the legacy tokens and P1..P5.
C16_PriorityRoundTrip ==
    /\ (call.fn = "roundTrip" /\ Returned
           /\ call.internal_priority \in {"highest", "high", "medium", "low", "lowest"})
          => /\ call.ret.normalized \in {"P1", "P2", "P3", "P4", "P5"}
             /\ call.ret.legacy = call.internal_priority
    /\ DOMAIN priorityMap = {"highest", "high", "medium", "low", "lowest"}
    /\ DOMAIN priorityToLegacy = {"P1", "P2", "P3", "P4", "P5"}
    /\ \A t \in DOMAIN priorityMap : priorityToLegacy[priorityMap[t]] = t
    /\ \A t \in DOMAIN priorityToLegacy : priorityMap[priorityToLegacy[t]] = t

C16_Witness ==
    /\ call.fn = "roundTrip"
    /\ Returned
    /\ call.internal_priority = "lowest"
    /\ call.priority = "highest"
    /\ call.ret.normalized = "P5"
    /\ call.ret.legacy = "lowest"

\* C17: restricting a payload to the mask of the client or of the
\* team_member, and restricting the result again, gives the same payload
\* as restricting once, and the result has no key outside the mask.
C17_SanitizeIdempotent ==
    (call.fn = "sanitize" /\ Returned)
        => /\ call.ret.twice = call.ret.once
           /\ (DOMAIN call.ret.once) \subseteq call.m
           /\ \A k \in (DOMAIN call.p) \cap call.m :
                 k \in DOMAIN call.ret.once /\ call.ret.once[k] = call.p[k]

C17_Witness ==
    /\ call.fn = "sanitize"
    /\ Returned
    /\ call.m = {"client_priority", "description"}
    /\ call.p = ("status" :> "done") @@ ("client_priority" :> "urgent")
    /\ call.ret.once = ("client_priority" :> "urgent")

\* An error of the schema-drift class: the store does not know a column.
SchemaDrift(result) == result.error /\ "schema cache" \in result.message

ManagerPath == userRole \notin {"client", "team_member"}

\* C18: a manager-path update calls the store's update at most twice; the
\* second call is made exactly when the first failed with a schema-drift
\* error, and it carries the fallback payload; when it fails too the
\* response is an error; a first call that succeeds is the only call.
C18_AtMostOneRetry ==
    (Handled("updateIssue") /\ ManagerPath /\ resp # 403 /\ req.id \in DOMAIN issues)
        => /\ Len(writes) \in {1, 2}
           /\ Len(writes) = 2 <=> SchemaDrift(writes[1].result)
           /\ Len(writes) = 2 => /\ writes[2].data = buildSafeUpdateBody(req.body)
                                 /\ writes[2].result.error => resp = 500
           /\ ~writes[1].result.error => (Len(writes) = 1 /\ resp = 200)

C18_Witness ==
    /\ Handled("updateIssue")
    /\ ManagerPath
    /\ Len(writes) = 2
    /\ SchemaDrift(writes[1].result)
    /\ writes[2].result.error
    /\ resp = 500

\* The fields the fallback payload is restricted to.
StableKeys == {"summary", "description", "status", "story_points", "labels", "due_date",
               "estimated_days", "actual_days", "priority"}

\* C19: when the first write of a manager-path update is rejected because
\* the store has no column exposed_to_client, a retry is made whose payload
\* omits exposed_to_client and every other key outside the stable set, and
\* the retry succeeds when the store knows every column of that payload.
C19_RetryOmitsExposedFlag ==
    (Handled("updateIssue") /\ userRole \in ManagerTier /\ Len(writes) >= 1
       /\ writes[1].result.error
       /\ "exposed_to_client" \in writes[1].result.message)
        => /\ Len(writes) = 2
           /\ "exposed_to_client" \notin DOMAIN writes[2].data
           /\ (DOMAIN writes[2].data) \subseteq StableKeys
           /\ (req.outage = 0 /\ (DOMAIN req.body) \cap StableKeys \subseteq schema.columns)
                 => resp = 200

\* C20: every stored issue with a parent refers to a stored issue.
C20_NoOrphanedChild ==
    \A i \in DOMAIN issues :
        issues[i].parent_issue_id # Null => issues[i].parent_issue_id \in DOMAIN issues

\* C21: the write of a concurrent issue update is decided on the row the
\* handler read and applied to the row as it is at the write: a
\* team_member who was assignee or reporter of the row it read is answered
\* 200 whatever the row holds by then, and a write that succeeds sets each
\* column it carries and leaves every other column as the last write left it.
C21_LastWriterWins ==
    [][\A h \in Handlers :
          (inflight[h].pc = "write" /\ inflight'[h].pc = "done")
             => LET flight == inflight[h]
                    carried == IF flight.role = "team_member"
                               THEN {"status", "internal_priority"}
                               ELSE IssueColumns
                IN  /\ (flight.role = "team_member"
                          /\ (flight.fetched.assignee_id = flight.actor
                                \/ flight.fetched.reporter_id = flight.actor))
                       => inflight'[h].status = 200
                    /\ inflight'[h].status = 200
                       => issues'[flight.id] = Masked(issues[flight.id], flight.body, carried)
                    /\ inflight'[h].status # 200 => issues' = issues]_vars

\* The race: a team_member's write is applied, after a manager's
\* reassignment, to an issue it is by then neither assignee nor reporter of.
C21_Witness ==
    \E member, manager \in Handlers :
        /\ inflight[member].pc = "done" /\ inflight[manager].pc = "done"
        /\ inflight[member].status = 200 /\ inflight[manager].status = 200
        /\ inflight[member].role = "team_member"
        /\ inflight[manager].role = "team_leader"
        /\ inflight[member].id = inflight[manager].id
        /\ inflight[member].fetched.assignee_id = inflight[member].actor
        /\ inflight[manager].body = ("assignee_id" :> inflight[manager].actor)
        /\ inflight[member].body = ("status" :> "done")
        /\ inflight[member].issue.assignee_id = inflight[manager].actor
        /\ inflight[member].issue.assignee_id # inflight[member].actor
        /\ inflight[member].issue.reporter_id # inflight[member].actor
        /\ inflight[member].issue.status = "done"
        /\ issues[inflight[member].id] = inflight[member].issue

\* A query or write of the log failed.
Failed(log) == \E n \in DOMAIN log : log[n].result.error

\* C22: a request of the issue create, update, delete or view whose store
\* call fails ends with an error response, the parent and subtask queries
\* of the view included; only the first write of a manager-path update may
\* fail without that, when its error is a schema-drift one; and a first
\* write that fails otherwise is the only write.
C22_NoStorageErrorSwallowed ==
    [][/\ (Pending("viewIssue") /\ Failed(reads')) => resp' >= 400
       /\ (Pending("createIssue") /\ resp' # 403
             /\ StoreInsert(NewIssue(req.body, req.actor)).error) => resp' >= 400
       /\ (Pending("deleteIssue") /\ StoreDelete(req.id).error) => resp' >= 400
       /\ (Pending("updateIssue") /\ req.id \notin DOMAIN issues) => resp' >= 400
       /\ (Pending("updateIssue") /\ writes' # <<>>)
             => /\ writes'[Len(writes')].result.error => resp' >= 400
                /\ Len(writes') = 2
                      => (ManagerPath /\ SchemaDrift(writes'[1].result))
                /\ (writes'[1].result.error /\ ~SchemaDrift(writes'[1].result))
                      => Len(writes') = 1]_vars

\* C23: a task is stored with created_by set to the identity that made the
\* create request, whatever the payload says, and no later request changes
\* the created_by of a stored task.
C23_CreatorNeverChanges ==
    [][/\ \A t \in (DOMAIN tasks') \ (DOMAIN tasks) : tasks'[t].created_by = req.actor
       /\ \A t \in (DOMAIN tasks) \cap (DOMAIN tasks') :
             tasks'[t].created_by = tasks[t].created_by]_vars

\* C24: a role-change request whose role is not one of user, team_member,
\* team_leader, client, admin, superadmin is answered with a 4xx error and
\* leaves user_roles as it was; the request changes no row but the
\* target's and stores only one of those six; and a request of an actor
\* with canManageUsers and one of the six that is answered 200 leaves the
\* target with the one row holding that role, whether it had a row or not.
C24_RoleChangeWritesKnownRoles ==
    [][Pending("setRole")
         => LET role == Get(req.body, "role")
                six == {"user", "team_member", "team_leader", "client", "admin", "superadmin"}
            IN  /\ role \notin six
                      => (resp' \in 400..499 /\ user_roles' = user_roles)
                /\ \A u \in Users :
                      user_roles'[u] # user_roles[u]
                         => (u = req.id /\ user_roles'[u] \in six)
                /\ (canManageUsers(userRole) /\ role \in six)
                      => /\ resp' \in {200, 500}
                         /\ resp' = 200 => user_roles' = [user_roles EXCEPT ![req.id] = role]
                         /\ resp' = 500 => user_roles' = user_roles]_vars

C24_Witness ==
    /\ Handled("setRole")
    /\ canManageUsers(userRole)
    /\ Get(req.body, "role") = "guest"
    /\ resp = 400
    /\ user_roles[req.id] = NoRow

=============================================================================
